---- MODULE Spec2Model ----
(***************************************************************************)
(* Model of src/utf8/utf8.py: the UTF-8 codec made of unpack, pack, decode *)
(* and encode.  A Python str is modelled as the sequence of its code       *)
(* points (each in 0 .. 0x10FFFF), a bytes object as a sequence of numbers *)
(* in 0 .. 255.  One action is one iteration of decode's while loop or of  *)
(* encode's for loop; a call that has returned can be fed to the other     *)
(* function, which gives the two round trips.                              *)
(***************************************************************************)
EXTENDS Integers, Sequences, FiniteSets, TLC

\* ------------------------------------------------------------------ bounds

\* Longest bytes object handed to decode by the environment.
MaxOctets == 4

\* Longest str handed to encode by the environment.
MaxChars == 2

\* Byte values the environment draws from, one or two of each class:
\* 0xxxxxxx (0x41), 10xxxxxx (0x80, 0xBF), 110xxxxx (0xC3), 1110xxxx (0xE0:
\* overlong before 0x80, shortest form before 0xBF), 11110xxx (0xF4: a code
\* point before 0x80, beyond 0x10FFFF before 0xBF) and 11111xxx (0xFF).
BytePool == {65, 128, 191, 195, 224, 244, 255}

\* Code points the environment draws from: the eight width boundaries and
\* the first surrogate, U+D800.
CodePool == {0, 127, 128, 2047, 2048, 65535, 65536, 1114111, 55296}

ByteSeqs == UNION {[1..n -> BytePool] : n \in 0..MaxOctets}

Texts == UNION {[1..n -> CodePool] : n \in 0..MaxChars}

\* ------------------------------------------------------- bitwise operators

\* Python's a | b on non-negative integers.
RECURSIVE BitOr(_, _)
BitOr(a, b) ==
    IF a = 0 THEN b
    ELSE IF b = 0 THEN a
    ELSE 2 * BitOr(a \div 2, b \div 2) + (IF a % 2 = 1 \/ b % 2 = 1 THEN 1 ELSE 0)

\* Python's a & b on non-negative integers.
RECURSIVE BitAnd(_, _)
BitAnd(a, b) ==
    IF a = 0 \/ b = 0 THEN 0
    ELSE 2 * BitAnd(a \div 2, b \div 2) + (IF a % 2 = 1 /\ b % 2 = 1 THEN 1 ELSE 0)

\* Python's a >> k on non-negative integers.
ShiftRight(a, k) == a \div (2 ^ k)

\* ----------------------------------------------------------- unpack, pack

\* The loop of unpack: for i in reversed(range(width)), with bits 1-indexed.
RECURSIVE unpackLoop(_, _, _)
unpackLoop(bits, octet, i) ==
    IF i = 0 THEN bits
    ELSE unpackLoop([bits EXCEPT ![i] = BitAnd(octet, 1)], ShiftRight(octet, 1), i - 1)

\* [0] * width
RECURSIVE Zeros(_)
Zeros(width) == IF width = 0 THEN <<>> ELSE Append(Zeros(width - 1), 0)

unpack(octet, width) == unpackLoop(Zeros(width), octet, width)

\* The loop of pack: for i, bit in enumerate(reversed(bits)).
RECURSIVE packLoop(_, _, _)
packLoop(bits, i, octet) ==
    IF i = Len(bits) THEN octet
    ELSE packLoop(bits, i + 1, octet + (2 ^ i) * bits[Len(bits) - i])

\* pack without `reversed`: the first bit taken as the least significant.
RECURSIVE packForwardLoop(_, _, _)
packForwardLoop(bits, i, octet) ==
    IF i = Len(bits) THEN octet
    ELSE packForwardLoop(bits, i + 1, octet + (2 ^ i) * bits[i + 1])

packForward(bits) == packForwardLoop(bits, 0, 0)

pack(bits) == packLoop(bits, 0, 0)

\* ------------------------------------------------------------------ decode

\* The match statement with `case [1, 1, *head]` for the 2-byte class: the 0
\* that closes the prefix is not matched.
MatchCaseMissingZero(bits) ==
    IF bits[1] = 0 THEN 1
    ELSE IF bits[1] = 1 /\ bits[2] = 1 THEN 2
    ELSE IF bits[1] = 1 /\ bits[2] = 1 /\ bits[3] = 1 /\ bits[4] = 0 THEN 3
    ELSE IF bits[1] = 1 /\ bits[2] = 1 /\ bits[3] = 1 /\ bits[4] = 1 /\ bits[5] = 0 THEN 4
    ELSE 0

\* The match statement with `case [1, 1, 1, 1, *head]` for the 4-byte class:
\* 11111xxx is taken for a leading byte.
MatchCaseFiveOnes(bits) ==
    IF bits[1] = 0 THEN 1
    ELSE IF bits[1] = 1 /\ bits[2] = 1 /\ bits[3] = 0 THEN 2
    ELSE IF bits[1] = 1 /\ bits[2] = 1 /\ bits[3] = 1 /\ bits[4] = 0 THEN 3
    ELSE IF bits[1] = 1 /\ bits[2] = 1 /\ bits[3] = 1 /\ bits[4] = 1 THEN 4
    ELSE 0

\* The match statement's case taken for the bits of a leading byte: the
\* number of bytes of the character, 0 for `case _`.
MatchCase(bits) ==
    IF bits[1] = 0 THEN 1
    ELSE IF bits[1] = 1 /\ bits[2] = 1 /\ bits[3] = 0 THEN 2
    ELSE IF bits[1] = 1 /\ bits[2] = 1 /\ bits[3] = 1 /\ bits[4] = 0 THEN 3
    ELSE IF bits[1] = 1 /\ bits[2] = 1 /\ bits[3] = 1 /\ bits[4] = 1 /\ bits[5] = 0 THEN 4
    ELSE 0

\* The star pattern of each case: *rest or *head.
Captured(bits, c) == SubSeq(bits, c + IF c = 1 THEN 1 ELSE 2, Len(bits))

\* unpack(next(stream)) with the width left at its default of 8.
ContinuationAllBits(octet) == unpack(octet, 8)

\* unpack(next(stream), 6): the bits taken from a byte after the leading one.
Continuation(octet) == unpack(octet, 6)

\* out_bits of a case whose next(stream) calls all succeed; pos is the number
\* of bytes the stream has yielded before the leading byte.
OutBits(octets, pos, bits, c) ==
    CASE c = 1 -> Captured(bits, 1)
      [] c = 2 -> Captured(bits, 2) \o Continuation(octets[pos + 2])
      [] c = 3 -> Captured(bits, 3) \o Continuation(octets[pos + 2])
                                    \o Continuation(octets[pos + 3])
      [] c = 4 -> Captured(bits, 4) \o Continuation(octets[pos + 2])
                                    \o Continuation(octets[pos + 3])
                                    \o Continuation(octets[pos + 4])

\* f'{n:_b}': the binary digits of n, without leading zeros, an underscore
\* between groups of four digits counted from the right.
RECURSIVE BinDigits(_)
BinDigits(n) == IF n < 2 THEN <<n>> ELSE Append(BinDigits(n \div 2), n % 2)

RECURSIVE Grouped(_, _)
Grouped(digits, i) ==
    IF i > Len(digits) THEN <<>>
    ELSE <<IF digits[i] = 1 THEN "1" ELSE "0">>
         \o (IF i < Len(digits) /\ (Len(digits) - i) % 4 = 0 THEN <<"_">> ELSE <<>>)
         \o Grouped(digits, i + 1)

FormatBin(n) == Grouped(BinDigits(n), 1)

\* chr(i) accepts i in range(0x110000) and raises ValueError otherwise.
ChrAccepts(i) == i >= 0 /\ i < 1114112

\* What a call ends with: a returned value or a raised ValueError.
Return(kind, val) == [kind |-> kind, val |-> val, msg |-> "", bit_str |-> <<>>]

Raise(msg, bit_str) ==
    [kind |-> "ValueError", val |-> <<>>, msg |-> msg, bit_str |-> bit_str]

NoResult == [kind |-> "none", val |-> <<>>, msg |-> "", bit_str |-> <<>>]

IncompleteMsg == "Incomplete UTF-8 byte sequence"

InvalidStartMsg == "Invalid UTF-8 start pattern: "

ChrRangeMsg == "chr() arg not in range(0x110000)"

\* What one iteration of decode's while loop comes to: kind says how it ends,
\* pos is the number of bytes the stream has yielded by then.
Iteration(kind, pos, code, bit_str) ==
    [kind |-> kind, pos |-> pos, code |-> code, bit_str |-> bit_str]

\* `case _` that appends U+FFFD and goes on instead of raising.
CaseDefaultSkips(pos, bits) == Iteration("char", pos + 1, 65533, <<>>)

\* `case _`: bit_str = f'{pack(bits):_b}' and
\* raise ValueError(f'Invalid UTF-8 start pattern: {bit_str}').
CaseDefault(pos, bits) == Iteration("invalid", pos + 1, 0, FormatBin(pack(bits)))

\* `except StopIteration: break`: the truncated character is dropped.
InCaseStopBreaks(octets, pos) == Iteration("break", pos, 0, <<>>)

\* `except StopIteration` that appends U+FFFD for the truncated character.
InCaseStopReplaces(octets, pos) == Iteration("char", Len(octets), 65533, <<>>)

\* next(stream) raises StopIteration inside a case, every remaining byte
\* having been read: `except StopIteration: raise ValueError(...)`.
InCaseStop(octets, pos) == Iteration("incomplete", Len(octets), 0, <<>>)

\* One iteration of decode's while loop, the stream having yielded pos bytes.
Iterate(octets, pos) ==
    IF pos >= Len(octets)
    THEN Iteration("break", pos, 0, <<>>)
    ELSE LET bits == unpack(octets[pos + 1], 8)
             c == MatchCase(bits)
         IN  IF c = 0
             THEN CaseDefault(pos, bits)
             ELSE IF pos + c > Len(octets)
             THEN InCaseStop(octets, pos)
             ELSE LET code == pack(OutBits(octets, pos, bits, c))
                  IN  Iteration(IF ChrAccepts(code) THEN "char" ELSE "chr",
                                pos + c, code, <<>>)

\* decode as a function of its argument.
RECURSIVE decodeLoop(_, _, _)
decodeLoop(octets, pos, out) ==
    LET it == Iterate(octets, pos)
    IN  CASE it.kind = "break" -> Return("str", out)
          [] it.kind = "char" -> decodeLoop(octets, it.pos, Append(out, it.code))
          [] it.kind = "incomplete" -> Raise(IncompleteMsg, <<>>)
          [] it.kind = "invalid" -> Raise(InvalidStartMsg, it.bit_str)
          [] it.kind = "chr" -> Raise(ChrRangeMsg, <<>>)

decode(octets) == decodeLoop(octets, 0, <<>>)

\* ------------------------------------------------------------------ encode

\* encode with body and tail of the 3-byte branch extended in the wrong order.
EncodeCodeSwapped(code) ==
    IF code < 128
    THEN <<code>>
    ELSE IF 128 <= code /\ code < 2048
    THEN <<BitOr(ShiftRight(code, 6), 192),
           BitOr(BitAnd(code, 63), 128)>>
    ELSE IF 2048 <= code /\ code < 65536
    THEN <<BitOr(ShiftRight(code, 12), 224),
           BitOr(BitAnd(code, 63), 128),
           BitOr(BitAnd(ShiftRight(code, 6), 63), 128)>>
    ELSE <<BitOr(ShiftRight(code, 18), 240),
           BitOr(BitAnd(ShiftRight(code, 12), 63), 128),
           BitOr(BitAnd(ShiftRight(code, 6), 63), 128),
           BitOr(BitAnd(code, 63), 128)>>

\* encode with `<=` for `<` in the range tests: 0x800 and 0x10000 fall in the
\* branch below theirs.
EncodeCodeLateBoundary(code) ==
    IF code < 128
    THEN <<code>>
    ELSE IF 128 <= code /\ code <= 2048
    THEN <<BitOr(ShiftRight(code, 6), 192),
           BitOr(BitAnd(code, 63), 128)>>
    ELSE IF 2048 <= code /\ code <= 65536
    THEN <<BitOr(ShiftRight(code, 12), 224),
           BitOr(BitAnd(ShiftRight(code, 6), 63), 128),
           BitOr(BitAnd(code, 63), 128)>>
    ELSE <<BitOr(ShiftRight(code, 18), 240),
           BitOr(BitAnd(ShiftRight(code, 12), 63), 128),
           BitOr(BitAnd(ShiftRight(code, 6), 63), 128),
           BitOr(BitAnd(code, 63), 128)>>

\* The bytes one iteration of encode's for loop hands to out.append or
\* out.extend for code = ord(char).
EncodeCode(code) ==
    IF code < 128
    THEN <<code>>
    ELSE IF 128 <= code /\ code < 2048
    THEN <<BitOr(ShiftRight(code, 6), 192),
           BitOr(BitAnd(code, 63), 128)>>
    ELSE IF 2048 <= code /\ code < 65536
    THEN <<BitOr(ShiftRight(code, 12), 224),
           BitOr(BitAnd(ShiftRight(code, 6), 63), 128),
           BitOr(BitAnd(code, 63), 128)>>
    ELSE <<BitOr(ShiftRight(code, 18), 240),
           BitOr(BitAnd(ShiftRight(code, 12), 63), 128),
           BitOr(BitAnd(ShiftRight(code, 6), 63), 128),
           BitOr(BitAnd(code, 63), 128)>>

\* bytearray.append and bytearray.extend accept only values in range(256).
ByteArrayAccepts(bs) == \A k \in 1..Len(bs) : bs[k] >= 0 /\ bs[k] < 256

ByteRangeMsg == "byte must be in range(0, 256)"

\* encode as a function of its argument.
RECURSIVE encodeLoop(_, _, _)
encodeLoop(text, idx, buf) ==
    IF idx = Len(text) THEN Return("bytes", buf)
    ELSE LET bs == EncodeCode(text[idx + 1])
         IN  IF ByteArrayAccepts(bs) THEN encodeLoop(text, idx + 1, buf \o bs)
             ELSE Raise(ByteRangeMsg, <<>>)

encode(text) == encodeLoop(text, 0, <<>>)

\* ------------------------------------------------------------------- state

VARIABLES
    given,   \* the value the environment passed to the first call
    stage,   \* 1: the first call, 2: the call on the first call's result
    call,    \* the function running or last run: "decode" or "encode"
    pc,      \* "decode", "encode" (in the loop), "returned" or "raised"
    octets,  \* decode's argument
    pos,     \* number of bytes decode's stream has yielded
    out,     \* decode's out, as code points
    text,    \* encode's argument
    idx,     \* number of characters encode's for loop has taken
    buf,     \* encode's out
    result,  \* what the call returned or raised
    starts,  \* history: stream position before each leading byte decode read
    conts    \* history: 1-based indexes of the bytes read by unpack(next(stream), 6)

vars == <<given, stage, call, pc, octets, pos, out, text, idx, buf, result, starts, conts>>

decodeVars == <<octets, pos, out, starts, conts>>

encodeVars == <<text, idx, buf>>

\* decode entered with argument b: stream = iter(octets); out = [].
EnterDecode(b) ==
    /\ call' = "decode"
    /\ pc' = "decode"
    /\ octets' = b
    /\ pos' = 0
    /\ out' = <<>>
    /\ starts' = <<>>
    /\ conts' = {}
    /\ result' = NoResult

\* encode entered with argument t: out = bytearray().
EnterEncode(t) ==
    /\ call' = "encode"
    /\ pc' = "encode"
    /\ text' = t
    /\ idx' = 0
    /\ buf' = <<>>
    /\ result' = NoResult

Init ==
    /\ given \in [kind : {"bytes"}, val : ByteSeqs] \cup [kind : {"str"}, val : Texts]
    /\ stage = 0
    /\ call = "none"
    /\ pc = "ready"
    /\ octets = <<>>
    /\ pos = 0
    /\ out = <<>>
    /\ text = <<>>
    /\ idx = 0
    /\ buf = <<>>
    /\ result = NoResult
    /\ starts = <<>>
    /\ conts = {}

\* The environment calls decode(given).
CallDecode ==
    /\ pc = "ready"
    /\ given.kind = "bytes"
    /\ EnterDecode(given.val)
    /\ stage' = 1
    /\ UNCHANGED <<given, encodeVars>>

\* The environment calls encode(given).
CallEncode ==
    /\ pc = "ready"
    /\ given.kind = "str"
    /\ EnterEncode(given.val)
    /\ stage' = 1
    /\ UNCHANGED <<given, decodeVars>>

\* The environment calls encode(decode(given)).
EncodeDecoded ==
    /\ pc = "returned"
    /\ call = "decode"
    /\ stage = 1
    /\ EnterEncode(result.val)
    /\ stage' = 2
    /\ UNCHANGED <<given, decodeVars>>

\* The environment calls decode(encode(given)).
DecodeEncoded ==
    /\ pc = "returned"
    /\ call = "encode"
    /\ stage = 1
    /\ EnterDecode(result.val)
    /\ stage' = 2
    /\ UNCHANGED <<given, encodeVars>>

\* The indexes of the continuation bytes an iteration starting at p read.
ContsRead(p, q) == (p + 2)..q

\* next(stream) raises StopIteration for the leading byte: break, return.
DecodeReturn ==
    /\ pc = "decode"
    /\ Iterate(octets, pos).kind = "break"
    /\ pc' = "returned"
    /\ result' = Return("str", out)
    /\ UNCHANGED <<given, stage, call, decodeVars, encodeVars>>

\* An iteration that appends chr(pack(out_bits)) to out.
DecodeChar ==
    /\ pc = "decode"
    /\ LET it == Iterate(octets, pos)
       IN  /\ it.kind = "char"
           /\ out' = Append(out, it.code)
           /\ pos' = it.pos
           /\ starts' = Append(starts, pos)
           /\ conts' = conts \cup ContsRead(pos, it.pos)
    /\ UNCHANGED <<given, stage, call, pc, octets, result, encodeVars>>

\* An iteration whose next(stream) for a continuation byte raises
\* StopIteration: ValueError('Incomplete UTF-8 byte sequence').
DecodeIncomplete ==
    /\ pc = "decode"
    /\ LET it == Iterate(octets, pos)
       IN  /\ it.kind = "incomplete"
           /\ pos' = it.pos
           /\ starts' = Append(starts, pos)
           /\ conts' = conts \cup ContsRead(pos, it.pos)
    /\ pc' = "raised"
    /\ result' = Raise(IncompleteMsg, <<>>)
    /\ UNCHANGED <<given, stage, call, octets, out, encodeVars>>

\* An iteration that takes `case _`: ValueError('Invalid UTF-8 start pattern').
DecodeInvalid ==
    /\ pc = "decode"
    /\ LET it == Iterate(octets, pos)
       IN  /\ it.kind = "invalid"
           /\ pos' = it.pos
           /\ starts' = Append(starts, pos)
           /\ result' = Raise(InvalidStartMsg, it.bit_str)
    /\ pc' = "raised"
    /\ UNCHANGED <<given, stage, call, octets, out, conts, encodeVars>>

\* An iteration whose chr(pack(out_bits)) raises ValueError.
DecodeChrError ==
    /\ pc = "decode"
    /\ LET it == Iterate(octets, pos)
       IN  /\ it.kind = "chr"
           /\ pos' = it.pos
           /\ starts' = Append(starts, pos)
           /\ conts' = conts \cup ContsRead(pos, it.pos)
    /\ pc' = "raised"
    /\ result' = Raise(ChrRangeMsg, <<>>)
    /\ UNCHANGED <<given, stage, call, octets, out, encodeVars>>

\* One iteration of encode's for loop.
EncodeChar ==
    /\ pc = "encode"
    /\ idx < Len(text)
    /\ LET bs == EncodeCode(text[idx + 1])
       IN  IF ByteArrayAccepts(bs)
           THEN /\ buf' = buf \o bs
                /\ idx' = idx + 1
                /\ UNCHANGED <<pc, result>>
           ELSE /\ pc' = "raised"
                /\ result' = Raise(ByteRangeMsg, <<>>)
                /\ UNCHANGED <<buf, idx>>
    /\ UNCHANGED <<given, stage, call, text, decodeVars>>

\* The for loop is over: return bytes(out).
EncodeReturn ==
    /\ pc = "encode"
    /\ idx = Len(text)
    /\ pc' = "returned"
    /\ result' = Return("bytes", buf)
    /\ UNCHANGED <<given, stage, call, text, idx, buf, decodeVars>>

Next ==
    \/ CallDecode
    \/ CallEncode
    \/ EncodeDecoded
    \/ DecodeEncoded
    \/ DecodeReturn
    \/ DecodeChar
    \/ DecodeIncomplete
    \/ DecodeInvalid
    \/ DecodeChrError
    \/ EncodeChar
    \/ EncodeReturn

Spec == Init /\ [][Next]_vars

\* ------------------------------------------------- what the claims speak of

\* The width a leading byte declares: 0xxxxxxx 1, 110xxxxx 2, 1110xxxx 3,
\* 11110xxx 4, and 0 for 10xxxxxx and 11111xxx.
LeadWidth(b) ==
    IF b < 128 THEN 1
    ELSE IF b >= 192 /\ b < 224 THEN 2
    ELSE IF b >= 224 /\ b < 240 THEN 3
    ELSE IF b >= 240 /\ b < 248 THEN 4
    ELSE 0

\* The payload a leading byte of width w carries: its low 7, 5, 4 or 3 bits.
LeadPayload(b, w) ==
    CASE w = 1 -> b % 128
      [] w = 2 -> b % 32
      [] w = 3 -> b % 16
      [] w = 4 -> b % 8

\* The value of the complete character of width w that starts after p bytes
\* of b: the leading payload first, then the low 6 bits of each further byte.
Assembled(b, p, w) ==
    CASE w = 1 -> LeadPayload(b[p + 1], 1)
      [] w = 2 -> LeadPayload(b[p + 1], 2) * 64 + (b[p + 2] % 64)
      [] w = 3 -> LeadPayload(b[p + 1], 3) * 4096 + (b[p + 2] % 64) * 64 + (b[p + 3] % 64)
      [] w = 4 -> LeadPayload(b[p + 1], 4) * 262144 + (b[p + 2] % 64) * 4096
                  + (b[p + 3] % 64) * 64 + (b[p + 4] % 64)

\* Whether a character starts after p bytes of b with a recognised leading
\* byte and has all its bytes.
CompleteAt(b, p) == LeadWidth(b[p + 1]) # 0 /\ p + LeadWidth(b[p + 1]) <= Len(b)

\* The character boundaries of b from p on, left to right, up to and
\* including the first one where no complete character starts.
RECURSIVE Scan(_, _)
Scan(b, p) ==
    IF p >= Len(b) THEN <<>>
    ELSE IF CompleteAt(b, p) THEN <<p>> \o Scan(b, p + LeadWidth(b[p + 1]))
    ELSE <<p>>

Boundaries(b) == Scan(b, 0)

\* b is made only of complete characters.
AllComplete(b) == \A k \in 1..Len(Boundaries(b)) : CompleteAt(b, Boundaries(b)[k])

\* The values of the characters of a b made only of complete characters.
Values(b) ==
    [k \in 1..Len(Boundaries(b)) |->
        Assembled(b, Boundaries(b)[k], LeadWidth(b[Boundaries(b)[k] + 1]))]

\* Every byte after the leading one has the form 10xxxxxx.
ContinuationsMarked(b) ==
    \A k \in 1..Len(Boundaries(b)) :
        \A j \in (Boundaries(b)[k] + 2)..(Boundaries(b)[k] + LeadWidth(b[Boundaries(b)[k] + 1])) :
            b[j] >= 128 /\ b[j] < 192

\* Structurally well-formed: recognised leading bytes, each followed by
\* exactly its number of 10xxxxxx bytes.
WellFormed(b) == AllComplete(b) /\ ContinuationsMarked(b)

\* The smallest value that needs width w.
MinValue(w) == CASE w = 1 -> 0 [] w = 2 -> 128 [] w = 3 -> 2048 [] w = 4 -> 65536

\* Every character of b has the shortest width for its value, and its value
\* is a code point (at most 0x10FFFF).
ShortestForm(b) ==
    \A k \in 1..Len(Boundaries(b)) :
        /\ Values(b)[k] >= MinValue(LeadWidth(b[Boundaries(b)[k] + 1]))
        /\ Values(b)[k] < 1114112

\* The UTF-8 bytes of code point c, by the table of widths.
Canonical(c) ==
    IF c < 128 THEN <<c>>
    ELSE IF c <= 2047 THEN <<192 + (c \div 64), 128 + (c % 64)>>
    ELSE IF c <= 65535
    THEN <<224 + (c \div 4096), 128 + ((c \div 64) % 64), 128 + (c % 64)>>
    ELSE <<240 + (c \div 262144), 128 + ((c \div 4096) % 64),
           128 + ((c \div 64) % 64), 128 + (c % 64)>>

\* The UTF-8 bytes of the code points at the width boundaries, written out.
AtBoundary(c) ==
    CASE c = 0 -> <<0>>
      [] c = 127 -> <<127>>
      [] c = 128 -> <<194, 128>>
      [] c = 2047 -> <<223, 191>>
      [] c = 2048 -> <<224, 160, 128>>
      [] c = 65535 -> <<239, 191, 191>>
      [] c = 65536 -> <<240, 144, 128, 128>>
      [] c = 1114111 -> <<244, 143, 191, 191>>
      [] OTHER -> Canonical(c)

\* The bytes of the first n code points of t, in text order.
RECURSIVE CanonicalOf(_, _)
CanonicalOf(t, n) ==
    IF n = 0 THEN <<>> ELSE CanonicalOf(t, n - 1) \o Canonical(t[n])

RECURSIVE AtBoundaryOf(_, _)
AtBoundaryOf(t, n) ==
    IF n = 0 THEN <<>> ELSE AtBoundaryOf(t, n - 1) \o AtBoundary(t[n])

\* The last boundary decode has read a leading byte at.
LastStart == starts[Len(starts)]

\* ------------------------------------------------------------------ claims

\* C1: for every text t of code points below 0x110000, of every width class
\* and every length, decode(encode(t)) returns without error and equals t.
RoundTripText ==
    given.kind = "str" =>
        /\ pc # "raised"
        /\ (stage = 2 /\ pc = "returned") => result = Return("str", given.val)

\* A text of a 4-byte and a 2-byte character has gone through encode and decode.
RoundTripTextWitness ==
    /\ given.kind = "str"
    /\ stage = 2
    /\ pc = "returned"
    /\ given.val = <<1114111, 128>>
    /\ octets = <<244, 143, 191, 191, 194, 128>>

\* C2 as claimed: for every structurally well-formed b, encode(decode(b)) is b.
RoundTripBytesAsClaimed ==
    (given.kind = "bytes" /\ WellFormed(given.val) /\ stage = 2 /\ pc = "returned")
        => result = Return("bytes", given.val)

\* C2, amended: for every structurally well-formed b whose characters are all
\* in shortest form with values at most 0x10FFFF, decode(b) returns and
\* encode(decode(b)) is b.
RoundTripBytesShortestForm ==
    (given.kind = "bytes" /\ WellFormed(given.val) /\ ShortestForm(given.val)) =>
        /\ pc # "raised"
        /\ (stage = 2 /\ pc = "returned") => result = Return("bytes", given.val)

\* A 1-byte and a 3-byte character in shortest form have gone through decode
\* and encode.
RoundTripBytesWitness ==
    /\ given = [kind |-> "bytes", val |-> <<65, 224, 191, 128>>]
    /\ stage = 2
    /\ pc = "returned"
    /\ text = <<65, 4032>>

\* C3: decode returns a text or fails with IncompleteSequence or with
\* InvalidStartByte; no call ends in any other failure.
ErrorTaxonomyExhaustive ==
    (call = "decode" /\ pc = "raised") =>
        /\ result.kind = "ValueError"
        /\ result.msg \in {IncompleteMsg, InvalidStartMsg}

\* C4: encode succeeds on code points in 0 .. 0x10FFFF and emits for each,
\* in text order, the 1, 2, 3 or 4 bytes of the table of widths, leading byte
\* first, every byte in 0 .. 255; at the width boundaries these are the
\* bytes of canonical UTF-8.
EncoderCorrect ==
    call = "encode" =>
        /\ pc # "raised"
        /\ buf = CanonicalOf(text, idx)
        /\ buf = AtBoundaryOf(text, idx)
        /\ \A k \in 1..Len(buf) : buf[k] \in 0..255
        /\ pc = "returned" => (idx = Len(text) /\ result = Return("bytes", buf))

\* encode has returned the bytes of U+0800 followed by U+10FFFF.
EncoderCorrectWitness ==
    /\ call = "encode"
    /\ pc = "returned"
    /\ text = <<2048, 1114111>>
    /\ result.val = <<224, 160, 128, 244, 143, 191, 191>>

\* C5: on a byte sequence made only of complete characters with values in
\* the Unicode range, decode takes exactly width bytes per character, one
\* character per iteration, returns without error at the end of the input,
\* and returns the assembled value of each character.
DecoderCorrect ==
    (call = "decode" /\ AllComplete(octets)
        /\ \A k \in 1..Len(Boundaries(octets)) : Values(octets)[k] < 1114112) =>
        /\ pc # "raised"
        /\ Len(out) = Len(starts)
        /\ starts = SubSeq(Boundaries(octets), 1, Len(starts))
        /\ out = SubSeq(Values(octets), 1, Len(out))
        /\ pos = IF Len(starts) = Len(Boundaries(octets)) THEN Len(octets)
                 ELSE Boundaries(octets)[Len(starts) + 1]
        /\ pc = "returned" => (pos = Len(octets) /\ result = Return("str", Values(octets)))

\* decode has returned a 1-byte character followed by a 3-byte character.
DecoderCorrectWitness ==
    /\ call = "decode"
    /\ stage = 1
    /\ pc = "returned"
    /\ octets = <<65, 224, 191, 191>>
    /\ result.val = <<65, 4095>>

\* The first boundary of b, from p on, where no complete character with a
\* value chr accepts starts; -1 when there is none.
RECURSIVE FirstMalformed(_, _)
FirstMalformed(b, p) ==
    IF p >= Len(b) THEN -1
    ELSE IF ~CompleteAt(b, p) THEN p
    ELSE IF Assembled(b, p, LeadWidth(b[p + 1])) >= 1114112 THEN p
    ELSE FirstMalformed(b, p + LeadWidth(b[p + 1]))

\* The 8-bit pattern of byte b as the message shows it: two groups of four
\* binary digits joined by an underscore.
Digit(b, k) == IF (b \div (2 ^ k)) % 2 = 1 THEN "1" ELSE "0"

BitPattern(b) ==
    <<Digit(b, 7), Digit(b, 6), Digit(b, 5), Digit(b, 4), "_",
      Digit(b, 3), Digit(b, 2), Digit(b, 1), Digit(b, 0)>>

\* b with the two high-order bits of its i-th byte set to hi.
WithHighBits(b, i, hi) == [b EXCEPT ![i] = hi * 64 + (b[i] % 64)]

\* C6: when decode reads a leading byte of class 110xxxxx, 1110xxxx or
\* 11110xxx and the input ends before all its continuation bytes, decode
\* fails with IncompleteSequence; it never returns a text for an input that
\* ends inside a character.
TruncationDetected ==
    call = "decode" =>
        /\ (starts # <<>> /\ LeadWidth(octets[LastStart + 1]) >= 2
              /\ LastStart + LeadWidth(octets[LastStart + 1]) > Len(octets))
            => (pc = "raised" /\ result = Raise(IncompleteMsg, <<>>))
        /\ pc = "returned" => AllComplete(octets)

\* After a complete character decode has read a 4-byte leading byte followed
\* by one of its three continuation bytes, and has raised.
TruncationWitness ==
    /\ call = "decode"
    /\ octets = <<65, 244, 128>>
    /\ starts = <<0, 1>>
    /\ pc = "raised"
    /\ result.msg = IncompleteMsg

\* C7: when the byte at a character boundary is 10xxxxxx or 11111xxx, decode
\* fails with InvalidStartByte and the message carries the byte's 8-bit
\* pattern; a byte of the four recognised classes never gives that error.
InvalidStartReported ==
    call = "decode" =>
        /\ starts = <<>> => result.msg # InvalidStartMsg
        /\ starts # <<>> =>
            LET b == octets[LastStart + 1]
            IN  /\ ((b >= 128 /\ b < 192) \/ b >= 248) =>
                    /\ pc = "raised"
                    /\ result.kind = "ValueError"
                    /\ result.msg = InvalidStartMsg
                    /\ result.bit_str = BitPattern(b)
                /\ (b < 128 \/ (b >= 192 /\ b < 248)) => result.msg # InvalidStartMsg

\* After a complete character decode has read 0x80 as a leading byte, and has
\* raised with the pattern 1000_0000.
InvalidStartWitness ==
    /\ call = "decode"
    /\ octets = <<65, 128>>
    /\ pc = "raised"
    /\ result.msg = InvalidStartMsg
    /\ result.bit_str = <<"1", "0", "0", "0", "_", "0", "0", "0", "0">>

\* C8, in every state: decode fails exactly when the input has a malformed
\* position, at the earliest one, every character before it decoded and none
\* after it read; the error carries no text; an unrecognised leading byte
\* gives InvalidStartByte with only that byte consumed, a truncated character
\* IncompleteSequence.
FirstErrorState ==
    call = "decode" =>
        LET m == FirstMalformed(octets, 0)
        IN  /\ pc = "returned" => m = -1
            /\ (pc = "decode" /\ m # -1) => pos <= m
            /\ pc = "raised" =>
                /\ m # -1
                /\ LastStart = m
                /\ Len(out) = Len(starts) - 1
                /\ result.kind = "ValueError"
                /\ result.val = <<>>
                /\ LeadWidth(octets[m + 1]) = 0 =>
                       (result.msg = InvalidStartMsg /\ pos = m + 1)
                /\ (LeadWidth(octets[m + 1]) # 0
                      /\ m + LeadWidth(octets[m + 1]) > Len(octets)) =>
                       (result.msg = IncompleteMsg /\ pos = Len(octets))

\* C8: first-error abort in left-to-right order; once decode has raised,
\* nothing more is consumed, appended or returned.
FirstErrorAborts ==
    /\ []FirstErrorState
    /\ [][pc = "raised" =>
            (pc' = "raised" /\ pos' = pos /\ out' = out /\ result' = result)]_vars

\* decode has raised InvalidStartByte at 0xFF, which follows a complete
\* character and precedes a truncated one, left unread.
FirstErrorWitness ==
    /\ call = "decode"
    /\ octets = <<65, 255, 195>>
    /\ pc = "raised"
    /\ result.msg = InvalidStartMsg
    /\ pos = 2
    /\ out = <<65>>

\* C9: the outcome of decode does not depend on the two high-order bits of a
\* byte read in continuation position: such a byte is never rejected and
\* only its low 6 bits enter the code point.
ContinuationsNotValidated ==
    (call = "decode" /\ pc \in {"returned", "raised"}) =>
        \A i \in conts : \A hi \in 0..3 :
            decode(WithHighBits(octets, i, hi)) = result

\* decode has returned U+00C1 for 0xC3 0x41, whose second byte is 01xxxxxx.
ContinuationsWitness ==
    /\ call = "decode"
    /\ octets = <<195, 65>>
    /\ conts = {2}
    /\ pc = "returned"
    /\ result.val = <<193>>

\* C10: encode(t1 + t2) is encode(t1) + encode(t2) for all texts; when
\* decode succeeds on b1 and on b2, decode(b1 + b2) succeeds and is
\* decode(b1) + decode(b2).
ConcatenationHomomorphism ==
    /\ (call = "encode" /\ pc \in {"returned", "raised"}) =>
        \A k \in 0..Len(text) :
            LET e1 == encode(SubSeq(text, 1, k))
                e2 == encode(SubSeq(text, k + 1, Len(text)))
            IN  /\ e1.kind = "bytes"
                /\ e2.kind = "bytes"
                /\ result = Return("bytes", e1.val \o e2.val)
    /\ (call = "decode" /\ pc \in {"returned", "raised"}) =>
        \A k \in 0..Len(octets) :
            LET d1 == decode(SubSeq(octets, 1, k))
                d2 == decode(SubSeq(octets, k + 1, Len(octets)))
            IN  (d1.kind = "str" /\ d2.kind = "str") =>
                    result = Return("str", d1.val \o d2.val)

\* decode has returned on 0xC3 0xBF 0x41, which splits into 0xC3 0xBF and
\* 0x41, both decodable.
ConcatenationWitness ==
    /\ call = "decode"
    /\ octets = <<195, 191, 65>>
    /\ pc = "returned"
    /\ decode(<<195, 191>>).kind = "str"
    /\ decode(<<65>>).kind = "str"

====
